---- MODULE Spec2Model ----
(***************************************************************************)
(* Movie Explorer frontend: the movie list controller (MoviesList with its *)
(* MovieFilters child), the list query serializer (movieService.getMovies) *)
(* the favorites store (utils/localStorage + the useFavorites hook) and    *)
(* the Favorites page that hydrates the favorite ids into movies.          *)
(*                                                                         *)
(* JavaScript values are tagged records; JavaScript strings are sequences  *)
(* of one-character strings, so that formatting and parsing are computed.  *)
(***************************************************************************)
EXTENDS Integers, Sequences, FiniteSets

(***************************************************************************)
(* Bounds of the model.                                                    *)
(***************************************************************************)
\* number of list fetches one run of the movie list may issue
MaxIssued == 4

\* getMovieById calls the Favorites page may make
MaxDetailCalls == 6
MaxViewCalls == 3

(***************************************************************************)
(* JavaScript values.                                                      *)
(***************************************************************************)
Undef == [t |-> "undefined"]
Null == [t |-> "null"]
Str(s) == [t |-> "string", s |-> s]
\* a number i, or i + 0.5 when half (the rating slider steps by 0.5)
NumH(i, h) == [t |-> "number", i |-> i, half |-> h]
Num(i) == NumH(i, FALSE)
Arr(a) == [t |-> "array", a |-> a]
Obj == [t |-> "object"]

\* JavaScript truthiness, as used by `x || d` and `x ? a : b`
Truthy(v) ==
    CASE v.t = "undefined" -> FALSE
      [] v.t = "null" -> FALSE
      [] v.t = "string" -> v.s # <<>>
      [] v.t = "number" -> ~(v.i = 0 /\ ~v.half)
      [] OTHER -> TRUE

\* x || d
OrElse(x, d) == IF Truthy(x) THEN x ELSE d

(***************************************************************************)
(* Strings used by the model.                                              *)
(***************************************************************************)
Drama == <<"D", "r", "a", "m", "a">>
Nolan == <<"N", "o", "l", "a", "n">>
Bale == <<"B", "a", "l", "e">>
War == <<"w", "a", "r">>
FailedToLoadMovies == <<"F", "a", "i", "l", "e", "d">>
NetworkError == <<"N", "e", "t", "w", "o", "r", "k">>

Digits == <<"0", "1", "2", "3", "4", "5", "6", "7", "8", "9">>

\* Number.prototype.toString of a non-negative integer
RECURSIVE NatToString(_)
NatToString(n) ==
    IF n < 10 THEN <<Digits[n + 1]>>
    ELSE NatToString(n \div 10) \o <<Digits[(n % 10) + 1]>>

\* Number.prototype.toString of i or i + 0.5
NumberToString(v) ==
    (IF v.i < 0 THEN <<"-">> \o NatToString(-v.i) ELSE NatToString(v.i))
        \o (IF v.half THEN <<".", "5">> ELSE <<>>)

\* value.toString() of movieService.ts:14, for the strings and numbers a
\* FilterState holds
ToString(v) == IF v.t = "string" THEN v.s ELSE NumberToString(v)

(***************************************************************************)
(* FilterState and movieService.getMovies.                                 *)
(* A FilterState is a function from its own keys to JavaScript values.     *)
(***************************************************************************)
\* the keys of MovieFilters, in the order Object.entries visits them here
KeyOrder ==
    <<"page", "page_size", "genre", "director", "actor", "year", "search",
      "min_rating", "max_rating">>

Keys == {KeyOrder[i] : i \in 1..Len(KeyOrder)}

PresentKeepsEmptyString(value) == value # Undef /\ value # Null

PresentTruthy(value) == Truthy(value)

\* the test of movieService.ts:13
Present(value) == value # Undef /\ value # Null /\ value # Str(<<>>)

\* the forEach of movieService.ts:12-16 from the i-th key on: the appended
\* [key, value] pairs
RECURSIVE AppendParams(_, _)
AppendParams(filters, i) ==
    IF i > Len(KeyOrder) THEN <<>>
    ELSE LET key == KeyOrder[i]
         IN (IF key \in DOMAIN filters /\ Present(filters[key])
             THEN <<[key |-> key, value |-> ToString(filters[key])]>>
             ELSE <<>>) \o AppendParams(filters, i + 1)

\* the URLSearchParams built by getMovies(filters); filters may be undefined
getMoviesParams(filters) ==
    IF filters = Undef THEN <<>> ELSE AppendParams(filters, 1)

PutWithoutSpread(filters, key, value) == [k \in {key} |-> value]

\* {...filters, key: value}
Put(filters, key, value) ==
    [k \in (DOMAIN filters) \cup {key} |-> IF k = key THEN value ELSE filters[k]]

DEFAULT_PAGE_SIZE == 20

\* the initial FilterState of MoviesList
DefaultFilters == [page |-> Num(1), page_size |-> Num(DEFAULT_PAGE_SIZE)]

(***************************************************************************)
(* Parsing of decimal text (parseInt, JSON.parse).                         *)
(***************************************************************************)
DigitSet == {Digits[i] : i \in 1..Len(Digits)}

IsDigits(s) == s # <<>> /\ \A i \in 1..Len(s) : s[i] \in DigitSet

DigitValue(c) == CHOOSE d \in 0..9 : Digits[d + 1] = c

RECURSIVE DigitsValue(_)
DigitsValue(s) ==
    IF s = <<>> THEN 0
    ELSE DigitsValue(SubSeq(s, 1, Len(s) - 1)) * 10 + DigitValue(s[Len(s)])

\* parseInt(text) of MovieFilters.tsx:77 for the text of a number input:
\* an optional sign and digits
parseInt(text) ==
    IF text[1] = "-" THEN Num(0 - DigitsValue(Tail(text))) ELSE Num(DigitsValue(text))

VARIABLES
    filters,      \* MoviesList: the FilterState (useState, line 74)
    movies,       \* MoviesList: the movies shown, a sequence of movie ids
    totalPages,   \* MoviesList: totalPages
    loading,      \* MoviesList: loading
    error,        \* MoviesList: error, Null or a string
    movieFilters, \* the mounted MovieFilters' searchTerm and ratingRange, or Unmounted
    inflight,     \* the getMovies requests awaiting their response
    issued,       \* the number of getMovies calls made so far
    lastCall,     \* the FilterState and query of the latest getMovies call
    changes,      \* how often the FilterState was replaced by a structurally other one
    moviesFrom,   \* the number of the request whose response movies hold (0: none)
    errorFrom,    \* the request whose rejection error holds (NoFailure: none)
    nTransitions, \* FilterState transitions so far, the initial state included
    nRetries,     \* retry() calls so far
    ev,           \* the last handler of the movie list that ran, with the state before it
    serFilters,   \* serializer: the argument of getMovies
    serParams,    \* serializer: the URLSearchParams built, or NotRun
    storage,      \* localStorage[FAVORITES_STORAGE_KEY]: Null when absent, or a string
    favorites,    \* useFavorites: the favorites state of each hook instance
    mounted,      \* the hook instances whose mount effect has run
    favEv,        \* the last favorites operation: its result and whether it threw
    favHist,      \* the item at the start and the last of add/remove on each id
    favoriteMovies, \* Favorites: the movies shown (useState, line 251)
    pageLoading,  \* Favorites: loading
    pageError,    \* Favorites: error, Null or a string
    hydrations,   \* Favorites: the Promise.all of getMovieById calls in flight
    detailCalls,  \* the number of getMovieById calls the page made so far
    pageEv,       \* the last handler of the Favorites page that ran
    route,        \* the route whose element is mounted (App.tsx, lines 14-22)
    detail,       \* the detail view: the :id param, the entity, loading and error
    requests,     \* the detail view's get-by-id calls awaiting their response
    viewCalls,    \* the number of get-by-id calls the detail view made so far
    viewEv        \* the last step of the detail view

serVars == <<serFilters, serParams>>

listVars ==
    <<filters, movies, totalPages, loading, error, movieFilters, inflight, issued,
      lastCall, changes, moviesFrom, errorFrom, nTransitions, nRetries, ev>>

favVars == <<storage, favorites, mounted, favEv, favHist>>

pageVars ==
    <<favoriteMovies, pageLoading, pageError, hydrations, detailCalls, pageEv>>

viewVars == <<detail, requests, viewCalls, viewEv>>

vars == <<listVars, serVars, favVars, pageVars, viewVars, route>>

NotRun == [t |-> "notrun"]

(***************************************************************************)
(* The serializer on its own: getMovies applied to any FilterState.        *)
(***************************************************************************)
\* values a caller may put under each key
SerValues(key) ==
    CASE key = "page" -> {Num(0), Num(1), Num(12)}
      [] key = "page_size" -> {Num(20)}
      [] key = "genre" -> {Undef, Null, Str(<<>>), Str(Drama)}
      [] key = "director" -> {Undef, Str(Nolan)}
      [] key = "actor" -> {Str(<<>>), Str(Bale)}
      [] key = "year" -> {Undef, Null, Num(0), Num(2023)}
      [] key = "search" -> {Str(<<>>), Str(War)}
      [] key = "min_rating" -> {Num(0), Num(7), NumH(7, TRUE)}
      [] key = "max_rating" -> {Num(10), NumH(8, TRUE)}

\* the FilterStates over the keys from the i-th on: each key absent, or present
\* with one of its values
RECURSIVE SerInputsFrom(_)
SerInputsFrom(i) ==
    IF i > Len(KeyOrder) THEN {<<>>}
    ELSE LET rest == SerInputsFrom(i + 1)
         IN rest \cup {Put(f, KeyOrder[i], v) : f \in rest, v \in SerValues(KeyOrder[i])}

SerInputs == {Undef} \cup SerInputsFrom(1)

SerInit ==
    /\ serFilters \in SerInputs
    /\ serParams = NotRun

\* movieService.getMovies(filters) up to the request
SerGetMovies ==
    /\ serParams = NotRun
    /\ serParams' = [t |-> "params", p |-> getMoviesParams(serFilters)]
    /\ UNCHANGED serFilters
    /\ UNCHANGED <<listVars, favVars, pageVars, viewVars, route>>


(***************************************************************************)
(* The movie list: MoviesList and its MovieFilters child.                  *)
(***************************************************************************)
\* filters.key, undefined when the key is absent
Get(f, key) == IF key \in DOMAIN f THEN f[key] ELSE Undef

Unmounted == [t |-> "unmounted"]

MountMovieFiltersRangeSwapped(f) ==
    [t |-> "mounted",
     searchTerm |-> OrElse(Get(f, "search"), Str(<<>>)).s,
     ratingRange |-> <<OrElse(Get(f, "max_rating"), Num(10)),
                       OrElse(Get(f, "min_rating"), Num(0))>>]

\* the useState initialisers of MovieFilters (lines 30-34)
MountMovieFilters(f) ==
    [t |-> "mounted",
     searchTerm |-> OrElse(Get(f, "search"), Str(<<>>)).s,
     ratingRange |-> <<OrElse(Get(f, "min_rating"), Num(0)),
                       OrElse(Get(f, "max_rating"), Num(10))>>]

\* what MoviesList renders (lines 110-171)
View(isLoading, shown, err) ==
    IF isLoading /\ shown = <<>> THEN "spinner"
    ELSE IF Truthy(err) THEN "error"
    ELSE "list"

\* the MovieFilters instance after a render: unmounted with the list view,
\* mounted afresh when the list view comes back, kept otherwise
Rerender(view, ui, f) ==
    IF view # "list" THEN Unmounted
    ELSE IF ui = Unmounted THEN MountMovieFilters(f)
    ELSE ui

DepsChangedStructural(prev, next) == prev # next

\* the dependency test of useEffect(..., [filters]) (line 99): Object.is of the
\* previous and the new FilterState, which every handler creates afresh
DepsChanged(prev, next) == TRUE

IssueTwice(n, rev) == {[id |-> n + 1, rev |-> rev], [id |-> n + 2, rev |-> rev]}

\* the requests the n+1-th call of movieService.getMovies (line 88) sends; rev
\* tells which FilterState it is for
Issue(n, rev) == {[id |-> n + 1, rev |-> rev]}

\* what getMovies(f) asks for: the FilterState and the query built from it
Call(f) == [filters |-> f, params |-> getMoviesParams(f)]

SpreadCopyResetsPage(f) == Put(f, "page", Num(1))

\* { ...filters } of line 118
SpreadCopy(f) == f

ErrorMessageNoFallback(message) == Str(message)

\* (err as Error).message || 'Failed to load movies' of line 92
ErrorMessage(message) == OrElse(Str(message), Str(FailedToLoadMovies))

\* what no handler of the movie list touches
ListFrame == UNCHANGED <<serVars, favVars, pageVars, viewVars, route>>

NoFailure == [id |-> 0, rev |-> 0]

NoResponse == [data |-> Undef, total_pages |-> Undef]

NoRequest == [id |-> 0, rev |-> 0]

\* the record of a handler run: the handler, the request and response it
\* completes, and of the state it starts from: whether the FilterState it sets
\* is structurally the one before, the calls made, the failed request on
\* screen, and whether req is the only request in flight, in the loading state
Event(op, req, resp, newFilters) ==
    [op |-> op, req |-> req, resp |-> resp,
     same |-> (newFilters = filters),
     issued |-> issued,
     failed |-> IF op = "retry" THEN errorFrom ELSE NoFailure,
     alone |-> (loading /\ {r.id : r \in inflight} = {req.id})]

\* setFilters(newFilters) and the effect it triggers (lines 82-99) up to the
\* await: loading on, error cleared, one getMovies call for newFilters.
\* ui is the MovieFilters state the handler leaves.
SetFilters(newFilters, ui, op) ==
    /\ issued < MaxIssued
    /\ filters' = newFilters
    /\ changes' = IF newFilters = filters THEN changes ELSE changes + 1
    /\ IF DepsChanged(filters, newFilters)
       THEN /\ loading' = TRUE
            /\ error' = Null
            /\ inflight' = inflight \cup Issue(issued, changes')
            /\ issued' = issued + Cardinality(Issue(issued, changes'))
            /\ lastCall' = Call(newFilters)
       ELSE UNCHANGED <<loading, error, inflight, issued, lastCall>>
    /\ movieFilters' = Rerender(View(loading', movies, error'), ui, newFilters)
    /\ ev' = Event(op, NoRequest, NoResponse, newFilters)
    /\ UNCHANGED <<movies, totalPages, moviesFrom, errorFrom>>
    /\ ListFrame

\* the value the Release Year field shows (line 196): filters.year || ''
YearShown(f) == OrElse(Get(f, "year"), Str(<<>>))

\* MovieFilters is on screen
FiltersShown == movieFilters # Unmounted

\* a filter edit or page change: a FilterState transition
Edit(newFilters, ui, op) ==
    /\ SetFilters(newFilters, ui, op)
    /\ nTransitions' = nTransitions + 1
    /\ UNCHANGED nRetries

SearchTerms == {<<>>, War}
GenreOptions == {<<>>, Drama}
DirectorOptions == {Nolan}
ActorOptions == {Bale}
YearTexts == {<<>>, <<"0">>, <<"2", "0", "2", "3">>}
RatingRanges == {<<Num(0), Num(10)>>, <<NumH(7, TRUE), Num(9)>>}

\* handleSearchChange (lines 56-58)
handleSearchChange ==
    /\ FiltersShown
    /\ \E term \in SearchTerms :
          /\ term # movieFilters.searchTerm
          /\ movieFilters' = [movieFilters EXCEPT !.searchTerm = term]
    /\ UNCHANGED <<filters, movies, totalPages, loading, error, inflight, issued,
                   lastCall, changes, moviesFrom, errorFrom, nTransitions, nRetries,
                   ev>>
    /\ ListFrame

\* handleSearchSubmit (lines 60-62)
handleSearchSubmit ==
    /\ FiltersShown
    /\ Edit(Put(Put(filters, "search", Str(movieFilters.searchTerm)), "page", Num(1)),
            movieFilters, "searchSubmit")

\* handleGenreChange (lines 64-66)
handleGenreChange ==
    /\ FiltersShown
    /\ \E value \in GenreOptions :
          Edit(Put(Put(filters, "genre", Str(value)), "page", Num(1)),
               movieFilters, "genreChange")

\* handleDirectorChange (lines 68-70)
handleDirectorChange ==
    /\ FiltersShown
    /\ \E value \in DirectorOptions :
          Edit(Put(Put(filters, "director", Str(value)), "page", Num(1)),
               movieFilters, "directorChange")

\* handleActorChange (lines 72-74)
handleActorChange ==
    /\ FiltersShown
    /\ \E value \in ActorOptions :
          Edit(Put(Put(filters, "actor", Str(value)), "page", Num(1)),
               movieFilters, "actorChange")

\* handleYearChange (lines 76-79)
handleYearChange ==
    /\ FiltersShown
    /\ \E text \in YearTexts :
          LET year == IF Truthy(Str(text)) THEN parseInt(text) ELSE Undef
          IN Edit(Put(Put(filters, "year", year), "page", Num(1)),
                  movieFilters, "yearChange")

\* handleRatingChange (lines 81-83)
handleRatingChange ==
    /\ FiltersShown
    /\ \E newValue \in RatingRanges :
          /\ newValue # movieFilters.ratingRange
          /\ movieFilters' = [movieFilters EXCEPT !.ratingRange = newValue]
    /\ UNCHANGED <<filters, movies, totalPages, loading, error, inflight, issued,
                   lastCall, changes, moviesFrom, errorFrom, nTransitions, nRetries,
                   ev>>
    /\ ListFrame

\* handleRatingCommitted (lines 85-92)
handleRatingCommitted ==
    /\ FiltersShown
    /\ Edit(Put(Put(Put(filters, "min_rating", movieFilters.ratingRange[1]),
                    "max_rating", movieFilters.ratingRange[2]), "page", Num(1)),
            movieFilters, "ratingCommitted")

\* handleClearFilters (lines 94-101)
handleClearFilters ==
    /\ FiltersShown
    /\ Edit([page |-> Num(1), page_size |-> Get(filters, "page_size")],
            [movieFilters EXCEPT !.searchTerm = <<>>,
                                 !.ratingRange = <<Num(0), Num(10)>>],
            "clearFilters")

\* handlePageChange (MoviesList, lines 105-108), from the Pagination of
\* lines 155-167
handlePageChange ==
    /\ View(loading, movies, error) = "list"
    /\ ~loading
    /\ movies # <<>>
    /\ totalPages > 1
    /\ \E page \in 1..totalPages :
          Edit(Put(filters, "page", Num(page)), movieFilters, "pageChange")

\* onRetry of the ErrorMessage (lines 114-121)
onRetry ==
    /\ View(loading, movies, error) = "error"
    /\ SetFilters(SpreadCopy(filters), movieFilters, "retry")
    /\ nRetries' = nRetries + 1
    /\ UNCHANGED nTransitions

\* the bodies a list response may carry: response.data and
\* response.meta?.total_pages
ResponseBodies ==
    {NoResponse,
     [data |-> Arr(<<>>), total_pages |-> Num(0)],
     [data |-> Arr(<<1, 2>>), total_pages |-> Num(2)]}

ErrorMessages == {<<>>, NetworkError}

\* getMovies of request req resolves: the try branch and finally (lines 88-95)
fetchMoviesResolved ==
    \E req \in inflight, response \in ResponseBodies :
        /\ movies' = OrElse(response.data, Arr(<<>>)).a
        /\ totalPages' = OrElse(response.total_pages, Num(1)).i
        /\ loading' = FALSE
        /\ inflight' = inflight \ {req}
        /\ moviesFrom' = req.id
        /\ movieFilters' = Rerender(View(FALSE, movies', error), movieFilters, filters)
        /\ ev' = Event("resolve", req, response, filters)
        /\ UNCHANGED <<filters, error, issued, lastCall, changes, errorFrom,
                       nTransitions, nRetries>>
        /\ ListFrame

\* getMovies of request req rejects: catch and finally (lines 91-95)
fetchMoviesRejected ==
    \E req \in inflight, message \in ErrorMessages :
        /\ error' = ErrorMessage(message)
        /\ loading' = FALSE
        /\ inflight' = inflight \ {req}
        /\ errorFrom' = req
        /\ movieFilters' = Rerender(View(FALSE, movies, error'), movieFilters, filters)
        /\ ev' = Event("reject", req, [NoResponse EXCEPT !.data = Str(message)], filters)
        /\ UNCHANGED <<filters, movies, totalPages, issued, lastCall, changes,
                       moviesFrom, nTransitions, nRetries>>
        /\ ListFrame

\* MoviesList after its first render and effect: the default FilterState, its
\* fetch in flight
ListInit ==
    /\ filters = DefaultFilters
    /\ movies = <<>>
    /\ totalPages = 1
    /\ loading = TRUE
    /\ error = Null
    /\ movieFilters = Unmounted
    /\ changes = 0
    /\ inflight = Issue(0, 0)
    /\ issued = Cardinality(Issue(0, 0))
    /\ lastCall = Call(DefaultFilters)
    /\ moviesFrom = 0
    /\ errorFrom = NoFailure
    /\ nTransitions = 1
    /\ nRetries = 0
    /\ ev = [op |-> "mount", req |-> NoRequest, resp |-> NoResponse, same |-> FALSE,
             issued |-> 0, failed |-> NoFailure, alone |-> FALSE]

(***************************************************************************)
(* The favorites store: utils/localStorage and the useFavorites hook.      *)
(***************************************************************************)
\* the movie ids the user marks
FavIds == {5, 7}

\* s split at its commas
RECURSIVE SplitCommas(_)
SplitCommas(s) ==
    IF \A i \in 1..Len(s) : s[i] # ","
    THEN <<s>>
    ELSE LET i == CHOOSE j \in 1..Len(s) :
                      s[j] = "," /\ \A k \in 1..(j - 1) : s[k] # ","
         IN <<SubSeq(s, 1, i - 1)>> \o SplitCommas(SubSeq(s, i + 1, Len(s)))

\* a JSON integer: an optional minus, then 0 or digits without a leading 0
IsJsonInt(s) ==
    LET body == IF s # <<>> /\ s[1] = "-" THEN Tail(s) ELSE s
    IN IsDigits(body) /\ (Len(body) > 1 => body[1] # "0")

JsonIntValue(s) == IF s[1] = "-" THEN 0 - DigitsValue(Tail(s)) ELSE DigitsValue(s)

\* JSON.parse(text) of useFavorites.ts:102 on null, {}, an integer or an array
\* of integers; any other text of the model is not JSON and throws a
\* SyntaxError (ok = FALSE)
JsonParse(text) ==
    IF text = <<"n", "u", "l", "l">> THEN [ok |-> TRUE, value |-> Null]
    ELSE IF text = <<"{", "}">> THEN [ok |-> TRUE, value |-> Obj]
    ELSE IF IsJsonInt(text) THEN [ok |-> TRUE, value |-> Num(JsonIntValue(text))]
    ELSE IF Len(text) >= 2 /\ text[1] = "[" /\ text[Len(text)] = "]"
    THEN LET inner == SubSeq(text, 2, Len(text) - 1)
             parts == SplitCommas(inner)
         IN IF inner = <<>> THEN [ok |-> TRUE, value |-> Arr(<<>>)]
            ELSE IF \A i \in 1..Len(parts) : IsJsonInt(parts[i])
            THEN [ok |-> TRUE,
                  value |-> Arr([i \in 1..Len(parts) |-> JsonIntValue(parts[i])])]
            ELSE [ok |-> FALSE, value |-> Undef]
    ELSE [ok |-> FALSE, value |-> Undef]

IntToString(n) == IF n < 0 THEN <<"-">> \o NatToString(0 - n) ELSE NatToString(n)

RECURSIVE JoinCommas(_)
JoinCommas(a) ==
    IF a = <<>> THEN <<>>
    ELSE IF Len(a) = 1 THEN IntToString(a[1])
    ELSE IntToString(a[1]) \o <<",">> \o JoinCommas(Tail(a))

\* JSON.stringify(favorites) of useFavorites.ts:114 for an array of integers
JsonStringify(a) == <<"[">> \o JoinCommas(a) \o <<"]">>

\* an includes that never finds the id
IncludesNever(a, movieId) == FALSE

\* favorites.includes(movieId)
Includes(a, movieId) == \E i \in 1..Len(a) : a[i] = movieId

\* a filter that keeps every id
WithoutNothing(a, movieId) == a

\* favorites.filter((id) => id !== movieId)
Without(a, movieId) == SelectSeq(a, LAMBDA id : id # movieId)

\* a getFavorites without the test for a missing item: JSON.parse(null) is
\* null, JSON.parse('') throws
getFavoritesParseAlways(item, readThrows) ==
    IF readThrows THEN Arr(<<>>)
    ELSE IF item = Null THEN Null
    ELSE LET r == JsonParse(item.s)
         IN IF r.ok THEN r.value ELSE Arr(<<>>)

\* getFavorites (useFavorites.ts:99-107) with item under the key; readThrows:
\* localStorage.getItem throws
getFavorites(item, readThrows) ==
    IF readThrows \/ ~Truthy(item) THEN Arr(<<>>)
    ELSE LET r == JsonParse(item.s)
         IN IF r.ok THEN r.value ELSE Arr(<<>>)

\* saveFavorites (useFavorites.ts:112-118): the item afterwards; writeThrows:
\* localStorage.setItem throws
saveFavorites(item, a, writeThrows) ==
    IF writeThrows THEN item ELSE Str(JsonStringify(a))

\* the outcome of a utility: whether it threw, what it returned, the item left
Outcome(threw, value, item) == [threw |-> threw, value |-> value, item |-> item]

\* addToFavorites (useFavorites.ts:123-131)
addToFavoritesUtil(item, movieId, readThrows, writeThrows) ==
    LET favs == getFavorites(item, readThrows)
    IN IF favs.t # "array" THEN Outcome(TRUE, Undef, item)
       ELSE IF ~Includes(favs.a, movieId)
       THEN LET newFavorites == Append(favs.a, movieId)
            IN Outcome(FALSE, Arr(newFavorites),
                       saveFavorites(item, newFavorites, writeThrows))
       ELSE Outcome(FALSE, favs, item)

\* removeFromFavorites (useFavorites.ts:136-141)
removeFromFavoritesUtil(item, movieId, readThrows, writeThrows) ==
    LET favs == getFavorites(item, readThrows)
    IN IF favs.t # "array" THEN Outcome(TRUE, Undef, item)
       ELSE LET newFavorites == Without(favs.a, movieId)
            IN Outcome(FALSE, Arr(newFavorites),
                       saveFavorites(item, newFavorites, writeThrows))

\* isFavorite (useFavorites.ts:146-149)
isFavoriteUtil(item, movieId, readThrows) ==
    LET favs == getFavorites(item, readThrows)
    IN IF favs.t # "array" THEN Outcome(TRUE, Undef, item)
       ELSE Outcome(FALSE, Includes(favs.a, movieId), item)

\* a clearFavorites that removes nothing
clearFavoritesKeepsItem(item, removeThrows) == Outcome(FALSE, Undef, item)

\* clearFavorites (useFavorites.ts:154-160); removeThrows: removeItem throws
clearFavoritesUtil(item, removeThrows) ==
    Outcome(FALSE, Undef, IF removeThrows THEN item ELSE Null)

\* a toggleFavorite that always adds
toggleFavoriteAlwaysAdds(item, movieId, checkThrows, readThrows, writeThrows) ==
    addToFavoritesUtil(item, movieId, readThrows, writeThrows)

\* toggleFavorite (useFavorites.ts:31-37): isFavoriteUtil decides between the
\* hook's removeFromFavorites and addToFavorites
toggleFavoriteOutcome(item, movieId, checkThrows, readThrows, writeThrows) ==
    LET member == isFavoriteUtil(item, movieId, checkThrows)
    IN IF member.threw THEN member
       ELSE IF member.value
       THEN removeFromFavoritesUtil(item, movieId, readThrows, writeThrows)
       ELSE addToFavoritesUtil(item, movieId, readThrows, writeThrows)

\* the hook instances that share the store
Hooks == {"a", "b"}

\* a JS boolean
Bool(b) == [t |-> "boolean", b |-> b]

\* which localStorage calls throw during an operation: getItem of the
\* read-modify-write, setItem/removeItem, getItem of toggle's membership test
Faults(readThrows, writeThrows, checkThrows) ==
    [read |-> readThrows, write |-> writeThrows, check |-> checkThrows]

NoFaults == Faults(FALSE, FALSE, FALSE)

\* the operation op of hook h on movieId ended with outcome out
FavEvent(h, op, movieId, faults, out) ==
    [hook |-> h, op |-> op, id |-> movieId, faults |-> faults,
     threw |-> out.threw, returned |-> out.value]

\* no history: some operation other than a load, an add or a remove has run,
\* or a localStorage call has thrown
Void == [t |-> "void"]

\* the history after operation op on movieId: the last of add and remove run
\* on each id, as long as only loads, adds and removes ran and nothing threw
FavRecord(op, movieId, faults) ==
    [favHist EXCEPT
        !.last = IF @ = Void \/ op = "load" THEN @
                 ELSE IF op \in {"add", "remove"} /\ faults = NoFaults
                 THEN [t |-> "last", of |-> [@.of EXCEPT ![movieId] = op]]
                 ELSE Void]

\* what no favorites operation touches
FavFrame == UNCHANGED <<listVars, serVars, viewVars, route>>

\* a hook callback called from outside the Favorites page
OffPage == UNCHANGED pageVars

\* the mount effect of h has run: its callbacks can be called
HookMounted(h) == h \in mounted

\* a mutation of hook h that starts from the hook's own favorites state
ItemOfHookState(h) ==
    IF favorites[h].t = "array" THEN Str(JsonStringify(favorites[h].a)) ELSE storage

\* the item a mutation of hook h starts from: what is persisted, read again by
\* getFavorites() in every utility (lines 124, 137, 147), never the hook's state
PersistedItem(h) == storage

\* a callback of hook h that sets its favorites state to what the utility
\* returns, unless the utility threw
HookApply(h, op, movieId, faults, out) ==
    /\ storage' = out.item
    /\ favorites' = [favorites EXCEPT ![h] = IF out.threw THEN @ ELSE out.value]
    /\ favEv' = FavEvent(h, op, movieId, faults, out)
    /\ favHist' = FavRecord(op, movieId, faults)

\* the mount effect of useFavorites (lines 14-16) of a hook instance, possibly
\* one taking the place of an earlier one
useFavoritesMount ==
    \E h \in Hooks, readThrows \in BOOLEAN :
        /\ HookApply(h, "load", 0, Faults(readThrows, FALSE, FALSE),
                     Outcome(FALSE, getFavorites(storage, readThrows), storage))
        /\ mounted' = mounted \cup {h}
        /\ FavFrame
        /\ OffPage

\* useFavorites.addToFavorites (lines 19-22)
hookAddToFavorites ==
    \E h \in Hooks, movieId \in FavIds, readThrows \in BOOLEAN, writeThrows \in BOOLEAN :
        /\ HookMounted(h)
        /\ HookApply(h, "add", movieId, Faults(readThrows, writeThrows, FALSE),
                     addToFavoritesUtil(PersistedItem(h), movieId, readThrows, writeThrows))
        /\ UNCHANGED mounted
        /\ FavFrame
        /\ OffPage

\* useFavorites.removeFromFavorites (lines 25-28)
hookRemoveFromFavorites ==
    \E h \in Hooks, movieId \in FavIds, readThrows \in BOOLEAN, writeThrows \in BOOLEAN :
        /\ HookMounted(h)
        /\ HookApply(h, "remove", movieId, Faults(readThrows, writeThrows, FALSE),
                     removeFromFavoritesUtil(PersistedItem(h), movieId, readThrows,
                                             writeThrows))
        /\ UNCHANGED mounted
        /\ FavFrame
        /\ OffPage

\* useFavorites.toggleFavorite (lines 31-37)
hookToggleFavorite ==
    \E h \in Hooks, movieId \in FavIds, checkThrows \in BOOLEAN,
       readThrows \in BOOLEAN, writeThrows \in BOOLEAN :
        /\ HookMounted(h)
        /\ HookApply(h, "toggle", movieId, Faults(readThrows, writeThrows, checkThrows),
                     toggleFavoriteOutcome(PersistedItem(h), movieId, checkThrows,
                                           readThrows, writeThrows))
        /\ UNCHANGED mounted
        /\ FavFrame
        /\ OffPage

\* useFavorites.isFavorite (lines 40-42): membership in the hook's own state
hookIsFavorite ==
    \E h \in Hooks, movieId \in FavIds :
        /\ HookMounted(h)
        /\ favEv' = FavEvent(h, "isFavorite", movieId, NoFaults,
                       IF favorites[h].t # "array" THEN Outcome(TRUE, Undef, storage)
                       ELSE Outcome(FALSE, Bool(Includes(favorites[h].a, movieId)),
                                    storage))
        /\ UNCHANGED <<storage, favorites, mounted, favHist>>
        /\ FavFrame
        /\ OffPage

\* useFavorites.clearFavorites (lines 45-48)
hookClearFavorites ==
    \E h \in Hooks, removeThrows \in BOOLEAN :
        /\ HookMounted(h)
        /\ HookApply(h, "clear", 0, Faults(FALSE, removeThrows, FALSE),
               [clearFavoritesUtil(storage, removeThrows) EXCEPT !.value = Arr(<<>>)])
        /\ UNCHANGED mounted
        /\ FavFrame
        /\ OffPage

\* what localStorage may hold under the key when the page loads
InitialItems ==
    {Null, Str(<<>>),
     Str(<<"[", "]">>),
     Str(<<"[", "5", "]">>),
     Str(<<"[", "5", ",", "7", "]">>),
     Str(<<"[", "5", ",", "5", "]">>),
     Str(<<"[", "1", "2", "]">>),
     Str(<<"n", "u", "l", "l">>),
     Str(<<"{", "}">>),
     Str(<<"5">>),
     Str(<<"[", "5", ",">>),
     Str(<<"x">>)}

\* the hooks after their first render (useState([]), line 11), their mount
\* effects still to run
FavInit ==
    /\ storage \in InitialItems
    /\ favorites = [h \in Hooks |-> Arr(<<>>)]
    /\ mounted = {}
    /\ favEv = FavEvent("a", "useState", 0, NoFaults, Outcome(FALSE, Undef, storage))
    /\ favHist = [start |-> storage,
                  last |-> [t |-> "last", of |-> [id \in FavIds |-> "none"]]]

FavIdle ==
    /\ storage = Null
    /\ favorites = [h \in Hooks |-> Arr(<<>>)]
    /\ mounted = {}
    /\ favEv = FavEvent("a", "useState", 0, NoFaults, Outcome(FALSE, Undef, storage))
    /\ favHist = [start |-> Null,
                  last |-> [t |-> "last", of |-> [id \in FavIds |-> "none"]]]

FavNext ==
    \/ useFavoritesMount
    \/ hookAddToFavorites
    \/ hookRemoveFromFavorites
    \/ hookToggleFavorite
    \/ hookIsFavorite
    \/ hookClearFavorites

(***************************************************************************)
(* The Favorites page (pages/MovieDetail/MovieDetail.tsx:250-360): it      *)
(* holds one useFavorites hook and hydrates its favorites into movies.     *)
(* localStorage works while the page is used; a failing store is the       *)
(* matter of the favorites store above.                                    *)
(***************************************************************************)
\* the page's hook instance (line 255)
PageHook == "a"

FailedToLoadFavoriteMovies == <<"F", "a", "i", "l", "e", "d", " ", "f", "a", "v">>

\* a movie record, and a response carrying it bare or in {success, data}
Movie(id) == [t |-> "movie", id |-> id]

ResponseShapes == {"bare", "envelope"}

Response(shape, movie) ==
    IF shape = "envelope" THEN [t |-> "envelope", data |-> movie] ELSE movie

\* response.data
DataOf(response) == IF response.t = "envelope" THEN response.data ELSE Undef

\* (response as any).data || response (line 272)
Unwrap(response) == OrElse(DataOf(response), response)

\* what the page renders (lines 291-302)
PageView ==
    IF pageLoading THEN "spinner"
    ELSE IF Truthy(pageError) THEN "error"
    ELSE "list"

\* favoriteMovies after the effect found favorites empty (lines 259-262): the
\* effect returns without touching the list shown
EffectOnEmpty(shown) == shown

LoadingOnEmptyKept(wasLoading) == wasLoading

\* loading after the effect found favorites empty (line 260): setLoading(false)
LoadingOnEmpty(wasLoading) == FALSE

IssuedFetchesFirstOnly(ids) == IF ids = <<>> THEN <<>> ELSE <<ids[1]>>

\* the ids getMovieById is called with, in call order (line 269):
\* favorites.map((id) => movieService.getMovieById(id))
IssuedFetches(ids) == ids

\* the [favorites] effect (lines 257-282) up to its await, favs being the
\* hook's new favorites state and shown the list after the handler
FavoritesEffect(favs, shown) ==
    IF Len(favs.a) = 0
    THEN /\ pageLoading' = LoadingOnEmpty(pageLoading)
         /\ favoriteMovies' = EffectOnEmpty(shown)
         /\ UNCHANGED <<pageError, hydrations, detailCalls>>
    ELSE /\ detailCalls + Len(IssuedFetches(favs.a)) <= MaxDetailCalls
         /\ pageLoading' = TRUE
         /\ pageError' = Null
         /\ favoriteMovies' = shown
         /\ hydrations' = hydrations \cup
                {[first |-> detailCalls + 1, ids |-> IssuedFetches(favs.a),
                  got |-> {}]}
         /\ detailCalls' = detailCalls + Len(IssuedFetches(favs.a))

PageFrame == UNCHANGED <<listVars, serVars, viewVars, route>>

\* the mount of the page: the hook's mount effect loads the favorites, the
\* page's effect runs for the initial [] and again for the loaded array
favoritesPageMount ==
    /\ ~HookMounted(PageHook)
    /\ HookApply(PageHook, "load", 0, NoFaults,
                 Outcome(FALSE, getFavorites(storage, FALSE), storage))
    /\ mounted' = mounted \cup {PageHook}
    /\ FavoritesEffect(favorites'[PageHook], favoriteMovies)
    /\ pageEv' = [op |-> "mount", id |-> 0, done |-> 0]
    /\ PageFrame

\* the heart button of a rendered MovieCard (line 351): the hook's
\* toggleFavorite, whose setFavorites reruns the effect
pageToggleFavorite ==
    \E i \in 1..Len(favoriteMovies) :
        LET movieId == favoriteMovies[i].id
            out == toggleFavoriteOutcome(PersistedItem(PageHook), movieId,
                                         FALSE, FALSE, FALSE)
        IN /\ PageView = "list"
           /\ HookApply(PageHook, "toggle", movieId, NoFaults, out)
           /\ FavoritesEffect(favorites'[PageHook], favoriteMovies)
           /\ pageEv' = [op |-> "toggle", id |-> movieId, done |-> 0]
           /\ UNCHANGED mounted
           /\ PageFrame

\* handleClearAll (lines 284-289), the button being rendered with a non-empty
\* list (lines 314-323); confirmed: the answer to window.confirm
handleClearAll ==
    \E confirmed \in BOOLEAN :
        /\ PageView = "list"
        /\ favoriteMovies # <<>>
        /\ pageEv' = [op |-> IF confirmed THEN "clearAll" ELSE "clearAllDeclined",
                      id |-> 0, done |-> 0]
        /\ IF confirmed
           THEN /\ HookApply(PageHook, "clear", 0, NoFaults,
                       [clearFavoritesUtil(storage, FALSE) EXCEPT !.value = Arr(<<>>)])
                /\ FavoritesEffect(favorites'[PageHook], <<>>)
           ELSE UNCHANGED <<storage, favorites, favEv, favHist, favoriteMovies,
                            pageLoading, pageError, hydrations, detailCalls>>
        /\ UNCHANGED mounted
        /\ PageFrame

\* one getMovieById of a hydration resolves; with the last one Promise.all
\* resolves and the movies are extracted and published (lines 270-273, 277)
detailResolved ==
    \E hy \in hydrations :
        \E i \in (1..Len(hy.ids)) \ hy.got :
            /\ IF hy.got \cup {i} = 1..Len(hy.ids)
               THEN \E shapes \in [1..Len(hy.ids) -> ResponseShapes] :
                       /\ favoriteMovies' =
                             [k \in 1..Len(hy.ids) |->
                                 Unwrap(Response(shapes[k], Movie(hy.ids[k])))]
                       /\ pageLoading' = FALSE
                       /\ hydrations' = hydrations \ {hy}
               ELSE /\ hydrations' =
                          (hydrations \ {hy}) \cup {[hy EXCEPT !.got = @ \cup {i}]}
                    /\ UNCHANGED <<favoriteMovies, pageLoading>>
            /\ pageEv' = [op |-> "resolved", id |-> hy.ids[i],
                          done |-> Cardinality(hy.got)]
            /\ UNCHANGED <<pageError, detailCalls, favVars>>
            /\ PageFrame

\* the movies of the fetches of hy that have resolved, in the order of the ids
ResolvedSoFar(hy) ==
    LET idx == SelectSeq([k \in 1..Len(hy.ids) |-> k], LAMBDA k : k \in hy.got)
    IN [k \in 1..Len(idx) |-> Movie(hy.ids[idx[k]])]

AfterRejectionPartial(hy, shown) == ResolvedSoFar(hy)

\* favoriteMovies after Promise.all rejected (lines 274-276): the catch sets
\* the error only
AfterRejection(hy, shown) == shown

\* one getMovieById of a hydration rejects: Promise.all rejects with it and
\* the catch publishes the error (lines 274-277)
detailRejected ==
    \E hy \in hydrations :
        \E i \in (1..Len(hy.ids)) \ hy.got, message \in ErrorMessages :
            /\ pageError' = OrElse(Str(message), Str(FailedToLoadFavoriteMovies))
            /\ pageLoading' = FALSE
            /\ hydrations' = hydrations \ {hy}
            /\ pageEv' = [op |-> "rejected", id |-> hy.ids[i],
                          done |-> Cardinality(hy.got)]
            /\ favoriteMovies' = AfterRejection(hy, favoriteMovies)
            /\ UNCHANGED <<detailCalls, favVars>>
            /\ PageFrame

\* onRetry of the error view (line 299): window.location.reload() starts the
\* page afresh, dropping what was in flight; the user reloads only while the
\* hydration to follow is within MaxDetailCalls
pageReload ==
    /\ PageView = "error"
    /\ detailCalls + Len(getFavorites(storage, FALSE).a) <= MaxDetailCalls
    /\ favoriteMovies' = <<>>
    /\ pageLoading' = TRUE
    /\ pageError' = Null
    /\ hydrations' = {}
    /\ favorites' = [favorites EXCEPT ![PageHook] = Arr(<<>>)]
    /\ mounted' = mounted \ {PageHook}
    /\ pageEv' = [op |-> "reload", id |-> 0, done |-> 0]
    /\ UNCHANGED <<storage, favEv, favHist, detailCalls>>
    /\ PageFrame

\* what localStorage may hold under the key when the Favorites page loads
PageInitialItems ==
    {Null,
     Str(<<"[", "]">>),
     Str(<<"[", "5", "]">>),
     Str(<<"[", "5", ",", "7", "]">>)}

\* the page after its first render (lines 251-253)
PageFirstRender ==
    /\ favoriteMovies = <<>>
    /\ pageLoading = TRUE
    /\ pageError = Null
    /\ hydrations = {}
    /\ detailCalls = 0
    /\ pageEv = [op |-> "useState", id |-> 0, done |-> 0]

PageIdle == PageFirstRender

PageInit ==
    /\ FavInit
    /\ storage \in PageInitialItems
    /\ PageFirstRender

PageNext ==
    \/ favoritesPageMount
    \/ pageToggleFavorite
    \/ handleClearAll
    \/ detailResolved
    \/ detailRejected
    \/ pageReload

(***************************************************************************)
(* The detail views MovieDetail (pages/MovieDetail/MovieDetail.tsx:30-57), *)
(* ActorProfile (unnamed/part_000:22-63) and DirectorProfile               *)
(* (pages/DirectorProfile/DirectorProfile.tsx:22-65).  Each is mounted by  *)
(* a route with an :id param (App.tsx:14-22), so id is never undefined     *)
(* and the early return of the effect is never taken.                      *)
(***************************************************************************)
ListRoute == "/"

FavoritesRoute == "favorites"

DetailRoutes == {"movies/:id", "actors/:id", "directors/:id"}

\* the :id of the URL, as useParams returns it
ParamIds == {<<"5">>, <<"7">>}

\* the record the remote holds under an id
Entity(r, id) ==
    [t |-> CASE r = "movies/:id" -> "movie"
             [] r = "actors/:id" -> "actor"
             [] r = "directors/:id" -> "director",
     id |-> id]

FailedToLoadMovieDetails == <<"F", "a", "i", "l", "e", "d", " ", "m", "o", "v">>

FailedToLoadActorProfile == <<"F", "a", "i", "l", "e", "d", " ", "a", "c", "t">>

FailedToLoadDirectorProfile == <<"F", "a", "i", "l", "e", "d", " ", "d", "i", "r">>

\* the fallback message of the view's catch
FailedToLoad(r) ==
    CASE r = "movies/:id" -> FailedToLoadMovieDetails
      [] r = "actors/:id" -> FailedToLoadActorProfile
      [] r = "directors/:id" -> FailedToLoadDirectorProfile

\* what the view stores of the awaited response: MovieDetail setMovie(data)
\* (lines 47-48) and ActorProfile setActor(data) (lines 40-41) store it as it
\* is, DirectorProfile stores response.data || response (lines 40-43)
StoredEntity(r, response) ==
    IF r = "directors/:id" THEN Unwrap(response) ELSE response

\* what the view renders (MovieDetail lines 59-70)
ViewShown ==
    IF detail.loading THEN "spinner"
    ELSE IF Truthy(detail.error) \/ detail.entity = Null THEN "error"
    ELSE "detail"

\* the [id] effect up to its await: setLoading(true), setError(null) and the
\* call of get-by-id with parseInt(id)
ViewEffect(id, entity) ==
    /\ detail' = [id |-> id, entity |-> entity, loading |-> TRUE, error |-> Null]
    /\ requests' = requests \cup {[n |-> viewCalls + 1, id |-> parseInt(id).i]}
    /\ viewCalls' = viewCalls + 1

ViewFrame == UNCHANGED <<listVars, serVars, favVars, pageVars, route>>

\* the URL moves to another id of the same route (a history entry of the same
\* route): the element stays mounted and the [id] effect reruns
viewParamChange ==
    \E id \in ParamIds \ {detail.id} :
        /\ route \in DetailRoutes
        /\ viewCalls < MaxViewCalls
        /\ ViewEffect(id, detail.entity)
        /\ viewEv' = [op |-> "param", id |-> parseInt(id).i, shape |-> "none"]
        /\ ViewFrame

\* a get-by-id resolves: the try branch and finally
viewResolved ==
    \E req \in requests, shape \in ResponseShapes :
        /\ detail' = [detail EXCEPT
                      !.entity = StoredEntity(route,
                                     Response(shape, Entity(route, req.id))),
                      !.loading = FALSE]
        /\ requests' = requests \ {req}
        /\ viewEv' = [op |-> "resolved", id |-> req.id, shape |-> shape]
        /\ UNCHANGED viewCalls
        /\ ViewFrame

\* a get-by-id rejects: the catch and finally
viewRejected ==
    \E req \in requests, message \in ErrorMessages :
        /\ detail' = [detail EXCEPT
                      !.error = OrElse(Str(message), Str(FailedToLoad(route))),
                      !.loading = FALSE]
        /\ requests' = requests \ {req}
        /\ viewEv' = [op |-> "rejected", id |-> req.id, shape |-> "none"]
        /\ UNCHANGED viewCalls
        /\ ViewFrame

\* onRetry of the error view: window.location.reload() starts the view
\* afresh, dropping what was in flight, and its effect runs
viewReload ==
    /\ route \in DetailRoutes
    /\ ViewShown = "error"
    /\ viewCalls < MaxViewCalls
    /\ detail' = [id |-> detail.id, entity |-> Null, loading |-> TRUE, error |-> Null]
    /\ requests' = {[n |-> viewCalls + 1, id |-> parseInt(detail.id).i]}
    /\ viewCalls' = viewCalls + 1
    /\ viewEv' = [op |-> "reload", id |-> parseInt(detail.id).i, shape |-> "none"]
    /\ ViewFrame

\* no detail view is mounted
ViewIdle ==
    /\ detail = [id |-> <<>>, entity |-> Null, loading |-> TRUE, error |-> Null]
    /\ requests = {}
    /\ viewCalls = 0
    /\ viewEv = [op |-> "useState", id |-> 0, shape |-> "none"]

\* a detail view after its mount: the useState values and the first run of
\* the effect
ViewInit ==
    /\ route \in DetailRoutes
    /\ detail \in {[id |-> id, entity |-> Null, loading |-> TRUE, error |-> Null] :
                   id \in ParamIds}
    /\ requests = {[n |-> 1, id |-> parseInt(detail.id).i]}
    /\ viewCalls = 1
    /\ viewEv = [op |-> "mount", id |-> parseInt(detail.id).i, shape |-> "none"]

ViewNext ==
    \/ viewParamChange
    \/ viewResolved
    \/ viewRejected
    \/ viewReload

SerIdle ==
    /\ serFilters = Undef
    /\ serParams = NotRun

Next ==
    \/ handleSearchChange
    \/ handleSearchSubmit
    \/ handleGenreChange
    \/ handleDirectorChange
    \/ handleActorChange
    \/ handleYearChange
    \/ handleRatingChange
    \/ handleRatingCommitted
    \/ handleClearFilters
    \/ handlePageChange
    \/ onRetry
    \/ fetchMoviesResolved
    \/ fetchMoviesRejected

Init == ListInit /\ SerIdle /\ FavIdle /\ PageIdle /\ ViewIdle /\ route = ListRoute

\* the movie list
Spec == Init /\ [][Next]_vars

SerNext == SerGetMovies

\* the serializer applied to any FilterState
InitSer == SerInit /\ ListInit /\ FavIdle /\ PageIdle /\ ViewIdle /\ route = ListRoute

SpecSer == InitSer /\ [][SerNext]_vars

\* the favorites store and the useFavorites hooks sharing it
InitFav == FavInit /\ ListInit /\ SerIdle /\ PageIdle /\ ViewIdle /\ route = ListRoute

SpecFav == InitFav /\ [][FavNext]_vars

\* the Favorites page
InitPage == PageInit /\ ListInit /\ SerIdle /\ ViewIdle /\ route = FavoritesRoute

SpecPage == InitPage /\ [][PageNext]_vars

\* a detail view
InitView == ViewInit /\ ListInit /\ SerIdle /\ FavIdle /\ PageIdle

SpecView == InitView /\ [][ViewNext]_vars

\* the application with any one of its fetching views mounted (App.tsx, lines
\* 14-22): only the handlers of the mounted view run
AppNext ==
    \/ route = ListRoute /\ Next
    \/ route = FavoritesRoute /\ PageNext
    \/ route \in DetailRoutes /\ ViewNext

InitApp == Init \/ InitPage \/ InitView

\* every fetch in flight gets its response, and a pending mount effect runs;
\* what the user does is up to the user
Responsive ==
    /\ WF_vars(route = ListRoute /\ (fetchMoviesResolved \/ fetchMoviesRejected))
    /\ WF_vars(route = FavoritesRoute /\ (detailResolved \/ detailRejected))
    /\ WF_vars(route = FavoritesRoute /\ favoritesPageMount)
    /\ WF_vars(route \in DetailRoutes /\ (viewResolved \/ viewRejected))

SpecApp == InitApp /\ [][AppNext]_vars /\ Responsive

(***************************************************************************)
(* Properties of the movie list (Spec).                                    *)
(***************************************************************************)
\* the handlers that replace the FilterState: filter edits and page changes
EditOps ==
    {"searchSubmit", "genreChange", "directorChange", "actorChange", "yearChange",
     "ratingCommitted", "clearFilters", "pageChange"}

\* the requests sent since the last handler started
NewRequests == {r \in inflight : r.id > ev.issued}

\* C1: a fetch that resolves or rejects publishes its result (movies,
\* totalPages or error) only if it was issued for the most recently issued
\* FilterState; the response of a fetch for a superseded FilterState is
\* discarded.
C1_OnlyLatestPublished ==
    ev.op \in {"resolve", "reject"} => ev.req.rev = changes

\* C2: retry() in the error state issues exactly one new fetch, and that fetch
\* is for the current FilterState, which retry() leaves as it is, also when the
\* fetch that failed was for an earlier FilterState.
C2_RetryReissuesCurrent ==
    ev.op = "retry" =>
        /\ ev.same
        /\ issued = ev.issued + 1
        /\ NewRequests = {[id |-> issued, rev |-> changes]}
        /\ lastCall.filters = filters
        /\ lastCall.params = getMoviesParams(filters)

\* C2 witness: a retry after the failure of a fetch that was issued for an
\* earlier FilterState than the current one.
C2_Witness ==
    /\ ev.op = "retry"
    /\ ev.failed.id # 0
    /\ ev.failed.id < ev.issued
    /\ ev.failed.rev # changes
    /\ issued = ev.issued + 1

\* C3: the number of list fetches issued equals the number of FilterState
\* transitions (the initial state included) plus the number of retry() calls:
\* no transition issues more than one fetch and no failure re-issues one.
C3_OneFetchPerTransitionOrRetry ==
    issued = nTransitions + nRetries

\* C3 witness: after three transitions and one retry, every fetch has
\* completed and a failure stays on screen.
C3_Witness ==
    /\ nTransitions = 3
    /\ nRetries = 1
    /\ inflight = {}
    /\ Truthy(error)

\* C4: with a single fetch in flight in the loading state, its resolution
\* gives the success state (movies and totalPages from the response, error
\* null, loading false) and its rejection the error state (a non-empty
\* message, loading false, the movies not replaced).
C4_SingleFetchCompletion ==
    /\ (ev.op = "resolve" /\ ev.alone) =>
          /\ movies = (IF ev.resp.data.t = "array" THEN ev.resp.data.a ELSE <<>>)
          /\ totalPages = (IF ev.resp.total_pages.t = "number" /\ ev.resp.total_pages.i > 0
                           THEN ev.resp.total_pages.i ELSE 1)
          /\ error = Null
          /\ ~loading
          /\ moviesFrom = ev.req.id
    /\ (ev.op = "reject" /\ ev.alone) =>
          /\ error.t = "string"
          /\ error.s # <<>>
          /\ ~loading
          /\ moviesFrom # ev.req.id
          /\ errorFrom = ev.req

\* C4 witness: the only fetch in flight rejected with an empty message.
C4_Witness ==
    /\ ev.op = "reject"
    /\ ev.alone
    /\ ev.resp.data = Str(<<>>)
    /\ error = Str(FailedToLoadMovies)

\* C5 as stated: a replacement of the FilterState by a structurally other one
\* enters loading, clears the error and issues a fetch, and a replacement by a
\* structurally equal one is no change: it issues nothing.
C5_StructuralChangeOnly ==
    ev.op \in EditOps =>
        IF ev.same THEN issued = ev.issued
        ELSE loading /\ error = Null /\ issued = ev.issued + 1

\* C5 amended: every replacement of the FilterState (filter edit, page change
\* or retry), by a structurally equal FilterState too, enters loading, clears
\* the error and issues one fetch for the new FilterState.
C5_EveryReplacementFetches ==
    ev.op \in EditOps \cup {"retry"} =>
        /\ loading
        /\ error = Null
        /\ issued = ev.issued + 1
        /\ NewRequests = {[id |-> issued, rev |-> changes]}
        /\ lastCall = Call(filters)

\* C5 witness: a filter edit that replaced the FilterState by a structurally
\* equal one and fetched.
C5_Witness ==
    /\ ev.op \in EditOps
    /\ ev.same
    /\ loading
    /\ issued = ev.issued + 1

\* C6: exactly one of loading, success, error is observable: loading is never
\* true with a non-null error, and the controller never holds a non-null error
\* together with the success data of the current FilterState (the response of
\* the latest fetch).
C6_ExactlyOneVariant ==
    /\ ~(loading /\ error # Null)
    /\ ~(error # Null /\ moviesFrom = issued)

(***************************************************************************)
(* Properties of the serializer (SpecSer).                                 *)
(***************************************************************************)
\* the fields of f the query must omit
Omitted(f) == {k \in DOMAIN f : f[k] \in {Undef, Null, Str(<<>>)}}

\* the positions of the parameters named k
ParamsNamed(k) == {i \in 1..Len(serParams.p) : serParams.p[i].key = k}

\* s is the decimal text of the number v: digits without a leading zero, a
\* minus for a negative number, ".5" for a half
IsCanonical(s, v) ==
    LET body == IF s # <<>> /\ s[1] = "-" THEN Tail(s) ELSE s
        half == Len(body) > 2 /\ SubSeq(body, Len(body) - 1, Len(body)) = <<".", "5">>
        int == IF half THEN SubSeq(body, 1, Len(body) - 2) ELSE body
    IN /\ IsDigits(int)
       /\ Len(int) > 1 => int[1] # "0"
       /\ half = v.half
       /\ (s[1] = "-") = (v.i < 0)
       /\ DigitsValue(int) = (IF v.i < 0 THEN 0 - v.i ELSE v.i)

\* C7: the query getMovies builds has no parameter for a field whose value is
\* undefined, null or the empty string.
C7_SerializationOmission ==
    (serParams # NotRun /\ serFilters # Undef) =>
        \A k \in Omitted(serFilters) : ParamsNamed(k) = {}

\* C7 witness: a query built from a FilterState with an empty-string genre, a
\* null year and an undefined director beside fields that are present.
C7_Witness ==
    /\ serParams # NotRun
    /\ serFilters # Undef
    /\ {"genre", "year", "director", "page", "search"} \subseteq DOMAIN serFilters
    /\ serFilters["genre"] = Str(<<>>)
    /\ serFilters["year"] = Null
    /\ serFilters["director"] = Undef
    /\ serFilters["search"] = Str(War)
    /\ ParamsNamed("search") # {}

\* C8: the query has exactly one parameter for each field that is present (a
\* numeric 0 included), its value the field's canonical text, and no other
\* parameter; {page:1, page_size:20, genre:"Drama", min_rating:7} gives exactly
\* page=1, page_size=20, genre=Drama, min_rating=7.
C8_SerializationExact ==
    (serParams # NotRun /\ serFilters # Undef) =>
        /\ \A k \in (DOMAIN serFilters) \ Omitted(serFilters) :
              /\ Cardinality(ParamsNamed(k)) = 1
              /\ \A i \in ParamsNamed(k) :
                    IF serFilters[k].t = "string"
                    THEN serParams.p[i].value = serFilters[k].s
                    ELSE IsCanonical(serParams.p[i].value, serFilters[k])
        /\ Len(serParams.p) = Cardinality((DOMAIN serFilters) \ Omitted(serFilters))
        /\ serFilters = [page |-> Num(1), page_size |-> Num(20), genre |-> Str(Drama),
                         min_rating |-> Num(7)]
              => {serParams.p[i] : i \in 1..Len(serParams.p)} =
                    {[key |-> "page", value |-> <<"1">>],
                     [key |-> "page_size", value |-> <<"2", "0">>],
                     [key |-> "genre", value |-> Drama],
                     [key |-> "min_rating", value |-> <<"7">>]}

\* C8 witness: the query of a FilterState with year 0, min_rating 0 and
\* max_rating 8.5 carries year=0, min_rating=0 and max_rating=8.5.
C8_Witness ==
    /\ serParams # NotRun
    /\ serFilters # Undef
    /\ {"year", "min_rating", "max_rating"} \subseteq DOMAIN serFilters
    /\ serFilters["year"] = Num(0)
    /\ serFilters["min_rating"] = Num(0)
    /\ serFilters["max_rating"] = NumH(8, TRUE)
    /\ \E i \in ParamsNamed("year") : serParams.p[i].value = <<"0">>
    /\ \E i \in ParamsNamed("max_rating") : serParams.p[i].value = <<"8", ".", "5">>

(***************************************************************************)
(* Properties of the favorites store (SpecFav).                            *)
(***************************************************************************)
\* what load() reads from the durable store
Loaded == getFavorites(storage, FALSE)

\* the item is the JSON text of an array of integers
ValidEncoding(item) ==
    /\ item.t = "string"
    /\ JsonParse(item.s).ok
    /\ JsonParse(item.s).value.t = "array"

\* C9: after a mutating favorites operation (add, remove, toggle, clear) has
\* returned, the hook's favorites state, and the array add and remove return,
\* equal what load() reads from the durable store, also when the write failed.
C9_MemoryEqualsDurable ==
    (favEv.op \in {"add", "remove", "toggle", "clear"} /\ ~favEv.threw) =>
        /\ favorites[favEv.hook] = Loaded
        /\ favEv.returned = Loaded

\* C10: when the persisted value is no valid encoding of an array of integer
\* ids, load() returns the empty set and does not throw.
C10_CorruptStoreLoadsEmpty ==
    (favEv.op = "load" /\ storage # Null /\ ~ValidEncoding(storage)) =>
        /\ ~favEv.threw
        /\ favEv.returned = Arr(<<>>)

\* the ids of a loaded value: its elements when it is an array, none otherwise
SetOf(v) == IF v.t = "array" THEN {v.a[i] : i \in 1..Len(v.a)} ELSE {}

\* the favorite set an item stands for: what load() reads, a corrupt or
\* missing item standing for the empty set
SpecSet(item) == SetOf(getFavorites(item, FALSE))

\* C11: no favorites operation (load, add, remove, toggle, isMember, clear)
\* throws to its caller, whatever the store holds and whichever localStorage
\* calls fail.
C11_NoOperationThrows == ~favEv.threw

\* C12: with a working localStorage and whatever the store holds, add(id) does
\* not throw, inserts id when absent, leaves the item alone when id is present,
\* returns the resulting set, and a second add(id) changes nothing more.
C12_AddInsertsOnce ==
    [][(favEv'.op = "add" /\ favEv'.faults = NoFaults) =>
          /\ ~favEv'.threw
          /\ SpecSet(storage') = SpecSet(storage) \cup {favEv'.id}
          /\ favEv'.id \in SpecSet(storage) => storage' = storage
          /\ SetOf(favEv'.returned) = SpecSet(storage')
          /\ addToFavoritesUtil(storage', favEv'.id, FALSE, FALSE).item = storage'
      ]_vars

\* C13: with a working localStorage and whatever the store holds, remove(id)
\* does not throw, deletes id when present, leaves the set unchanged when
\* absent, returns the resulting set, and a second remove(id) changes nothing.
C13_RemoveDeletesOnce ==
    [][(favEv'.op = "remove" /\ favEv'.faults = NoFaults) =>
          /\ ~favEv'.threw
          /\ SpecSet(storage') = SpecSet(storage) \ {favEv'.id}
          /\ SetOf(favEv'.returned) = SpecSet(storage')
          /\ removeFromFavoritesUtil(storage', favEv'.id, FALSE, FALSE).item = storage'
      ]_vars

\* C14: with a working localStorage, toggle(id) does what remove(id) does when
\* id is in the persisted set and what add(id) does otherwise, and a second
\* toggle(id) brings the favorite set back to the one before the first.
C14_ToggleIsAddOrRemove ==
    [][(favEv'.op = "toggle" /\ favEv'.faults = NoFaults) =>
          LET id == favEv'.id
              out == IF id \in SpecSet(storage)
                     THEN removeFromFavoritesUtil(storage, id, FALSE, FALSE)
                     ELSE addToFavoritesUtil(storage, id, FALSE, FALSE)
              again == toggleFavoriteOutcome(storage', id, FALSE, FALSE, FALSE)
          IN /\ storage' = out.item
             /\ favEv'.threw = out.threw
             /\ favEv'.returned = out.value
             /\ SpecSet(again.item) = SpecSet(storage)
      ]_vars

\* C14 witness: a toggle of 5 that removed it from a set holding 5 and 7.
C14_Witness ==
    /\ favEv.op = "toggle"
    /\ favEv.id = 5
    /\ favEv.faults = NoFaults
    /\ favEv.returned = Arr(<<7>>)
    /\ SpecSet(storage) = {7}

\* the stores that are empty or absent
EmptyStores == {Null, Str(<<"[", "]">>)}

\* the ids whose most recent operation was an add
LastAdded == {id \in FavIds : favHist.last.of[id] = "add"}

\* C15: from an empty or absent store, after any sequence of add and remove
\* operations (with a working localStorage), what is persisted and what load()
\* returns is exactly the set of ids whose most recent operation was add.
C15_LoadIsLastAdded ==
    (favHist.start \in EmptyStores /\ favHist.last # Void) =>
        /\ SpecSet(storage) = LastAdded
        /\ (favEv.op = "load" /\ favEv.faults = NoFaults) =>
              /\ ~favEv.threw
              /\ favEv.returned.t = "array"
              /\ SetOf(favEv.returned) = LastAdded

\* C15 witness: load() after adds of 5 and 7 and a remove of 5 returns [7].
C15_Witness ==
    /\ favHist.start = Null
    /\ favHist.last # Void
    /\ favHist.last.of[5] = "remove"
    /\ favHist.last.of[7] = "add"
    /\ favEv.op = "load"
    /\ favEv.faults = NoFaults
    /\ favEv.returned = Arr(<<7>>)

NoDuplicates(a) == \A i, j \in 1..Len(a) : a[i] = a[j] => i = j

\* the item is absent or the JSON text of an array without duplicates
UniqueOrAbsent(item) ==
    \/ item = Null
    \/ ValidEncoding(item) /\ NoDuplicates(JsonParse(item.s).value.a)

\* C16: from an absent key or a persisted array without duplicates, after any
\* sequence of add, remove, toggle and clear operations, whichever
\* localStorage calls fail, the persisted array holds no id more than once.
C16_NoDuplicateIds == UniqueOrAbsent(favHist.start) => UniqueOrAbsent(storage)

\* C16 witness: add(5) on a persisted [5,7] left it as it was.
C16_Witness ==
    /\ favHist.start = Str(<<"[", "5", ",", "7", "]">>)
    /\ favEv.op = "add"
    /\ favEv.id = 5
    /\ favEv.returned = Arr(<<5, 7>>)
    /\ storage = favHist.start

\* what add, remove and toggle of id make of the set S
ApplyOp(op, id, S) ==
    IF op = "add" THEN S \cup {id}
    ELSE IF op = "remove" THEN S \ {id}
    ELSE IF id \in S THEN S \ {id} ELSE S \cup {id}

\* C17: whichever hook instance runs an add, remove or toggle, and however
\* stale its own favorites state is, the persisted set afterwards is the
\* operation applied to the set persisted before it (with a working
\* localStorage and a store that holds an array): no update is lost.
C17_NoLostUpdate ==
    [][(/\ favEv'.op \in {"add", "remove", "toggle"}
        /\ favEv'.faults = NoFaults
        /\ getFavorites(storage, FALSE).t = "array") =>
          /\ ~favEv'.threw
          /\ SpecSet(storage') = ApplyOp(favEv'.op, favEv'.id, SpecSet(storage))
      ]_vars

\* C17 witness: hook b added 7 while hook a still held [5]; both are persisted.
C17_Witness ==
    /\ favHist.start = Null
    /\ favEv.hook = "b"
    /\ favEv.op = "add"
    /\ favEv.id = 7
    /\ favorites["a"] = Arr(<<5>>)
    /\ SpecSet(storage) = {5, 7}

\* C18: after clear() with a working localStorage, whatever the store held,
\* load() returns the empty set and isMember(id) is false for every id, both
\* for the store's isFavorite and for the isFavorite of the hook that cleared.
C18_ClearEmpties ==
    (favEv.op = "clear" /\ favEv.faults = NoFaults) =>
        /\ ~favEv.threw
        /\ Loaded = Arr(<<>>)
        /\ favorites[favEv.hook] = Arr(<<>>)
        /\ \A id \in FavIds :
              /\ ~isFavoriteUtil(storage, id, FALSE).threw
              /\ ~isFavoriteUtil(storage, id, FALSE).value

\* C18 witness: a clear() of a store that started with the non-array text 5.
C18_Witness ==
    /\ favHist.start = Str(<<"5">>)
    /\ favEv.op = "clear"
    /\ favEv.faults = NoFaults
    /\ storage = Null

\* the outcome of the operation of event e had it run on item
Replay(item, e) ==
    IF e.op = "load" THEN Outcome(FALSE, getFavorites(item, e.faults.read), item)
    ELSE IF e.op = "add"
    THEN addToFavoritesUtil(item, e.id, e.faults.read, e.faults.write)
    ELSE IF e.op = "remove"
    THEN removeFromFavoritesUtil(item, e.id, e.faults.read, e.faults.write)
    ELSE IF e.op = "toggle"
    THEN toggleFavoriteOutcome(item, e.id, e.faults.check, e.faults.read,
                               e.faults.write)
    ELSE [clearFavoritesUtil(item, e.faults.write) EXCEPT !.value = Arr(<<>>)]

\* C19: with no favorites key in the store, load() returns the empty set, and
\* load, add, remove, toggle and clear throw, return and leave persisted
\* exactly what they would on a store holding the empty array [].
C19_AbsentIsEmpty ==
    [][(storage = Null /\ favEv'.op \in {"load", "add", "remove", "toggle", "clear"}) =>
          LET onEmpty == Replay(Str(<<"[", "]">>), favEv')
          IN /\ favEv'.op = "load" => favEv'.returned = Arr(<<>>)
             /\ favEv'.threw = onEmpty.threw
             /\ favEv'.returned = onEmpty.value
             /\ getFavorites(storage', FALSE) = getFavorites(onEmpty.item, FALSE)
      ]_vars

\* C19 witness: an add of 5 that ran on a store without the key.
C19_Witness ==
    /\ favHist.start = Null
    /\ favHist.last # Void
    /\ favHist.last.of[5] = "add"
    /\ favHist.last.of[7] = "none"
    /\ favEv.op = "add"
    /\ storage = Str(<<"[", "5", "]">>)

(***************************************************************************)
(* Properties of the Favorites page (SpecPage).                            *)
(***************************************************************************)
\* the ids of the movies the page renders
RenderedIds == {favoriteMovies[i].id : i \in 1..Len(favoriteMovies)}

\* C20: on the Favorites page, whenever no hydration is in flight and no error
\* is shown, the ids of the rendered movies are the hook's current favorite
\* set, after any toggles and clears, the removal of the last favorite included.
C20_RenderedIsFavorites ==
    (HookMounted(PageHook) /\ hydrations = {} /\ PageView = "list") =>
        RenderedIds = SetOf(favorites[PageHook])

\* the steps in which the [favorites] effect ran
EffectRan == pageEv'.op \in {"mount", "toggle", "clearAll"}

\* C21: hydrating an empty list of favorite ids yields an empty list of
\* entities and issues no network call: whenever the effect runs for an empty
\* favorites array, the page is left with no movie, not loading, and no
\* detail fetch has been issued.
C21_EmptyHydratesToEmpty ==
    [][(EffectRan /\ favorites'[PageHook] = Arr(<<>>)) =>
          /\ favoriteMovies' = <<>>
          /\ ~pageLoading'
          /\ detailCalls' = detailCalls
          /\ hydrations' = hydrations
      ]_vars

\* the part of C21 about the network alone
NoCallOnEmpty ==
    [][(EffectRan /\ favorites'[PageHook] = Arr(<<>>)) =>
          (detailCalls' = detailCalls /\ hydrations' = hydrations)]_vars

\* the list a hydration publishes when every fetch succeeded
Hydrated(ids) == [k \in 1..Len(ids) |-> Movie(ids[k])]

\* C22: hydration is all-or-nothing: a rejected fetch ends its hydration in
\* the error state and leaves the entity list as it was, never replaced by the
\* movies of the fetches that succeeded; a resolved fetch replaces the list
\* only when it is the last of its hydration, and then by the movie of every
\* id.
C22_AllOrNothing ==
    [][/\ pageEv'.op = "rejected" =>
             /\ Truthy(pageError')
             /\ ~pageLoading'
             /\ favoriteMovies' = favoriteMovies
       /\ pageEv'.op = "resolved" =>
             \/ favoriteMovies' = favoriteMovies
             \/ \E hy \in hydrations :
                   /\ Cardinality(hy.got) = Len(hy.ids) - 1
                   /\ hy \notin hydrations'
                   /\ favoriteMovies' = Hydrated(hy.ids)
      ]_vars

\* C22 witness: of a hydration of two ids one fetch resolved and the other
\* then rejected, and the page shows the error with its list still empty.
C22_Witness ==
    /\ pageEv.op = "rejected"
    /\ pageEv.done = 1
    /\ PageView = "error"
    /\ favoriteMovies = <<>>

\* C23: a hydration of a non-empty id sequence issues one detail fetch per
\* id, all of them in the step that starts it and so before any response, and
\* when its last fetch resolves the list has one movie per favorite id, in the
\* order of the ids, whatever the order of the responses.
C23_OneFetchPerId ==
    [][LET ids == favorites'[PageHook].a
       IN /\ (EffectRan /\ ids # <<>>) =>
                /\ detailCalls' = detailCalls + Len(ids)
                /\ hydrations' \ hydrations =
                      {[first |-> detailCalls + 1, ids |-> ids, got |-> {}]}
          /\ (pageEv'.op = "resolved" /\ ~pageLoading') =>
                /\ Len(favoriteMovies') = Len(ids)
                /\ \A k \in 1..Len(ids) : favoriteMovies'[k].id = ids[k]
          /\ pageEv'.op \in {"resolved", "rejected"} => detailCalls' = detailCalls
      ]_vars

\* C23 witness: the hydration of [5, 7] issued two fetches, the one of 7
\* resolved before the one of 5, and the list is movie 5, movie 7.
C23_Witness ==
    /\ pageEv = [op |-> "resolved", id |-> 5, done |-> 1]
    /\ detailCalls = 2
    /\ favoriteMovies = <<Movie(5), Movie(7)>>

(***************************************************************************)
(* Further properties of the movie list (Spec).                            *)
(***************************************************************************)
\* twice a rating, ratings being multiples of one half
Doubled(n) == 2 * n.i + (IF n.half THEN 1 ELSE 0)

\* C25: in every reachable FilterState of the movie list, page is an integer
\* of at least 1 and, when min_rating and max_rating are both present,
\* min_rating is at most max_rating.
C25_PageAndRatingRange ==
    /\ filters.page.t = "number"
    /\ ~filters.page.half
    /\ filters.page.i >= 1
    /\ (Get(filters, "min_rating") # Undef /\ Get(filters, "max_rating") # Undef) =>
          Doubled(filters.min_rating) <= Doubled(filters.max_rating)

\* C25 witness: after the rating range 7.5 to 9 was committed and the second
\* page chosen, the FilterState holds page 2 and both ratings.
C25_Witness ==
    /\ ev.op = "pageChange"
    /\ filters.page = Num(2)
    /\ Get(filters, "min_rating") = NumH(7, TRUE)
    /\ Get(filters, "max_rating") = Num(9)

\* C26: no sequence of filter edits makes the list query carry year=0: the
\* year parameter of every getMovies call is absent or a year other than
\* zero.
C26_NoYearZero ==
    \A i \in 1..Len(lastCall.params) :
        lastCall.params[i].key = "year" => lastCall.params[i].value # <<"0">>

\* the year field is shown empty only when the FilterState has no year: this
\* fails with C26, the field showing year 0 as empty
YearFieldShowsYear ==
    YearShown(filters) = Str(<<>>) => Get(filters, "year") = Undef

\* the latest getMovies call is awaiting its response
LatestInFlight == \E r \in inflight : r.id = issued

\* C27: loading is true in every state in which the fetch for the current
\* FilterState is still in flight: the completion of an earlier fetch never
\* sets loading to false while the latest one is pending.
C27_LoadingWhileLatestInFlight == LatestInFlight => loading

\* the fields a filter handler edits
EditedKeys(op) ==
    CASE op = "searchSubmit" -> {"search"}
      [] op = "genreChange" -> {"genre"}
      [] op = "directorChange" -> {"director"}
      [] op = "actorChange" -> {"actor"}
      [] op = "yearChange" -> {"year"}
      [] op = "ratingCommitted" -> {"min_rating", "max_rating"}
      [] op = "pageChange" -> {}

\* C29: a filter edit yields a FilterState that differs from the previous one
\* only in the edited fields and in page, which is 1, page_size and every other
\* field being as before; a page change alters page only; clear-filters
\* yields exactly {page: 1, page_size: the previous page_size}.
C29_EditFrame ==
    [][ev'.op \in EditOps =>
          IF ev'.op = "clearFilters"
          THEN /\ DOMAIN filters' = {"page", "page_size"}
               /\ filters'.page = Num(1)
               /\ filters'.page_size = filters.page_size
          ELSE /\ DOMAIN filters' = DOMAIN filters \cup EditedKeys(ev'.op)
               /\ \A k \in DOMAIN filters \ (EditedKeys(ev'.op) \cup {"page"}) :
                     filters'[k] = filters[k]
               /\ ev'.op # "pageChange" => filters'.page = Num(1)
      ]_vars

\* C29 witness: the year was set to 2023 on a FilterState that held the
\* search term, which is kept, with page 1 and the page size.
C29_Witness ==
    /\ ev.op = "yearChange"
    /\ Get(filters, "year") = Num(2023)
    /\ Get(filters, "search") = Str(War)
    /\ filters.page = Num(1)
    /\ filters.page_size = Num(DEFAULT_PAGE_SIZE)

(***************************************************************************)
(* Properties of the detail views (SpecView).                              *)
(***************************************************************************)
\* C24: every entity fetch hands its consumer the same normalized record
\* whether the remote responds with the bare record or with the record in a
\* {success, data} envelope: after a response the view holds the record of
\* the requested id itself.
C24_EnvelopeNormalized ==
    viewEv.op = "resolved" => detail.entity = Entity(route, viewEv.id)

\* the part of C24 that holds: DirectorProfile stores the record for both
\* shapes
DirectorNormalized ==
    (viewEv.op = "resolved" /\ route = "directors/:id") =>
        detail.entity = Entity(route, viewEv.id)

(***************************************************************************)
(* Hydrations of the Favorites page never overlap (SpecPage).              *)
(***************************************************************************)
\* at most one hydration is in flight, and the page shows the spinner, which
\* has no heart button and no Clear All, for as long as it is
OneHydrationBehindSpinner ==
    /\ Cardinality(hydrations) <= 1
    /\ hydrations # {} => PageView = "spinner"

\* the hook's favorites do not change while a hydration is in flight
FavoritesFixedWhileHydrating ==
    [][hydrations # {} => favorites'[PageHook] = favorites[PageHook]]_vars

\* C28: when the favorite set changes while a hydration is in flight, the
\* list shown once every hydration has completed is the one hydrated from the
\* latest favorite set: each response that ends the last hydration in flight
\* publishes the movies of the hook's current favorites.
C28_LatestHydrationShown ==
    [][(pageEv'.op = "resolved" /\ hydrations' = {}) =>
          favoriteMovies' = Hydrated(favorites'[PageHook].a)]_vars

\* the case C28 is about: the favorites changed with a hydration in flight
C28_Case ==
    \E hy \in hydrations : hy.ids # favorites[PageHook].a

(***************************************************************************)
(* Termination of loading in every fetching view (SpecApp).                *)
(***************************************************************************)
\* the mounted view is not in its loading state
Settled ==
    CASE route = ListRoute -> ~loading
      [] route = FavoritesRoute -> ~pageLoading
      [] route \in DetailRoutes -> ~detail.loading

\* C30: if every issued fetch eventually resolves or rejects and the user
\* eventually stops changing inputs, every fetching view (movie list, movie
\* detail, actor profile, director profile, favorites) eventually leaves the
\* loading state and stays in success or error.
C30_EventuallySettled == <>[]Settled

\* C30 witness: the movie list refetched after an edit, every fetch got its
\* response, the last of them a rejection, and the list is out of loading.
C30_Witness ==
    /\ route = ListRoute
    /\ issued >= 2
    /\ inflight = {}
    /\ ev.op = "reject"
    /\ Settled
====
